---- MODULE Spec2Model ----
(***************************************************************************)
(* Model of src/search/indexing/local_import.rs: the visibility query      *)
(* get_all_ids and the document assembly index_local.                      *)
(*                                                                         *)
(* Strings are TLA+ strings, except the licence string, which is a         *)
(* sequence of pieces (words and separator characters) so that             *)
(* str::split(' ') can be computed.  Option<T> is a sequence of length 0   *)
(* (None / SQL NULL) or 1 (Some).  The document record holds the fields     *)
(* that index_local computes from categories, loaders, version fields,     *)
(* licence and owner; the fields copied through from the project record,   *)
(* the gallery lists and the client_side / server_side keys added to       *)
(* loader_fields at lines 179-190 are left out.                            *)
(***************************************************************************)
EXTENDS Integers, Sequences, FiniteSets, TLC

VARIABLES
    db,               \* the primary store: mods, versions, team_members, users, organizations
    store_error,      \* Option: the error the store answered a call of this run with
    pc,               \* position of the run
    pending,          \* rows of the query result the stream has not yielded yet
    all_visible_ids,  \* get_all_ids: the Vec collected so far / returned
    visible_ids,      \* index_local: HashMap<VersionId, (ProjectId, String)>
    projects,         \* index_local: HashMap<ProjectId, QueryProject>
    versions,         \* index_local: HashMap<VersionId, QueryVersion>
    remaining,        \* keys of visible_ids the for loop has not visited yet
    uploads,          \* index_local: Vec<UploadSearchProject>
    result            \* what the run returned

vars == <<db, store_error, pc, pending, all_visible_ids, visible_ids, projects,
          versions, remaining, uploads, result>>

(* ------------------------------ bounds -------------------------------- *)
NumProjects == 2
NumVersions == 2
MaxCats == 1
MaxLoaders == 2
MaxFields == 2
MaxLicenseLen == 3

ProjectIds == 1..NumProjects
VersionIds == 1..NumVersions
UserIds == {1, 2}
OrgIds == {1}

SeqsUpTo(S, n) == UNION {[1..k -> S] : k \in 0..n}
Range(s) == {s[i] : i \in DOMAIN s}

(* Option<T> *)
None == <<>>
Some(x) == <<x>>

(* ----------------------- status policy (enums) ------------------------ *)
VersionStatus == {"listed", "archived", "draft", "unlisted", "scheduled", "unknown"}
ProjectStatus == {"approved", "archived", "rejected", "draft", "unlisted",
                  "processing", "withheld", "scheduled", "private", "unknown"}

is_hidden(x) == x \in {"draft", "scheduled", "unknown"}
is_searchable(x) == x \in {"approved", "archived"}

(* the two bound parameters of the query, $1 and $2 *)
HiddenParam == {x \in VersionStatus : is_hidden(x)}
SearchableParam == {x \in ProjectStatus : is_searchable(x)}

(* ------------------------------ SQL ----------------------------------- *)
(* x = ANY(arr): some element of arr equals x *)
EqAny(x, arr) == \E e \in arr : x = e
(* x != ANY(arr): some element of arr differs from x *)
NeAny(x, arr) == \E e \in arr : x # e

(* variant of Coalesce: the organization owner is preferred *)
CoalesceSecondFirst(a, b) == IF b # None THEN b ELSE a

(* COALESCE(a, b) on nullable values *)
Coalesce(a, b) == IF a # None THEN a ELSE b

(* a LEFT JOIN keeps the left row with NULLs when nothing matches *)
LeftJoin(matches) == IF matches = {} THEN {None} ELSE matches

(* usernames reached through team_members tm JOIN users u for one team:
   tm.team_id = team AND tm.is_owner = TRUE AND tm.accepted = TRUE *)
OwnerJoin(d, team) ==
    LeftJoin({ Some(d.users[tm.user_id]) :
               tm \in {t \in d.team_members :
                         t.team_id = team /\ t.is_owner /\ t.accepted} })

(* organizations o ON o.id = m.organization_id, then its team's owners *)
OrgOwnerJoin(d, m) ==
    IF m.organization_id = None
    THEN {None}
    ELSE OwnerJoin(d, d.organizations[m.organization_id[1]].team_id)

ModFilter(m) == EqAny(m.status, SearchableParam)
VersionFilter(v) == NeAny(v.status, HiddenParam)

(* FROM versions v INNER JOIN mods m ... WHERE ...: the versions that pass *)
SelectedVersions(d) ==
    {v \in VersionIds : /\ ModFilter(d.mods[d.versions[v].mod_id])
                        /\ VersionFilter(d.versions[v])}

(* the grouped rows of the query: one per (v.id, m.id, u.username, ou.username) *)
QueryGroups(d) ==
    UNION { { [id |-> v, mod_id |-> d.versions[v].mod_id, u |-> o[1], ou |-> o[2]] :
                o \in OwnerJoin(d, d.mods[d.versions[v].mod_id].team_id)
                        \X OrgOwnerJoin(d, d.mods[d.versions[v].mod_id]) } :
            v \in SelectedVersions(d) }

(* SELECT list + the closure of try_filter_map: the returned triple *)
unwrap_or_default(o) == IF o = None THEN "" ELSE o[1]
RowTriple(r) == <<r.id, r.mod_id, unwrap_or_default(Coalesce(r.u, r.ou))>>

(* ------------------------- index_local helpers ----------------------- *)
EmptyMap == <<>>

(* the record Project::get_many_ids hydrates: the mods row plus the ids of
   every version of the project, whatever the version's status *)
RECURSIVE SetToSeq(_)
SetToSeq(S) ==
    IF S = {} THEN <<>>
    ELSE LET x == CHOOSE y \in S : \A z \in S : y <= z
         IN <<x>> \o SetToSeq(S \ {x})

QueryProject(d, p) ==
    [id |-> p,
     license |-> d.mods[p].license,
     categories |-> d.mods[p].categories,
     additional_categories |-> d.mods[p].additional_categories,
     versions |-> SetToSeq({v \in VersionIds : d.versions[v].mod_id = p})]

QueryVersion(d, v) ==
    [id |-> v,
     project_id |-> d.versions[v].mod_id,
     loaders |-> d.versions[v].loaders,
     version_fields |-> d.versions[v].version_fields]

(* serde_json::Value::as_str *)
as_str(x) == IF x.kind = "string" THEN Some(x.str) ELSE None

(* models::projects::from_duplicate_version_fields: field name -> the values
   of every field of that name, in order *)
RECURSIVE ValuesOf(_, _)
ValuesOf(version_fields, name) ==
    IF version_fields = <<>> THEN <<>>
    ELSE (IF Head(version_fields).field_name = name
          THEN <<Head(version_fields).value>> ELSE <<>>)
         \o ValuesOf(Tail(version_fields), name)

from_duplicate_version_fields(version_fields) ==
    [name \in {version_fields[i].field_name : i \in DOMAIN version_fields} |->
        ValuesOf(version_fields, name)]

(* Iterator::filter_map(|x| x.as_str().map(String::from)) *)
RECURSIVE FilterMapAsStr(_)
FilterMapAsStr(xs) ==
    IF xs = <<>> THEN <<>>
    ELSE as_str(Head(xs)) \o FilterMapAsStr(Tail(xs))

(* Vec::retain(|x| *x != s) *)
RetainNot(xs, s) == SelectSeq(xs, LAMBDA x : x # s)

(* lines 160-168 *)
mrpack_loaders(loader_fields) ==
    IF "mrpack_loaders" \in DOMAIN loader_fields
    THEN FilterMapAsStr(loader_fields["mrpack_loaders"])
    ELSE <<>>

(* lines 116-119: categories once the version's loaders are appended *)
categories_with_loaders(m, v) == m.categories \o v.loaders

(* variant of display_categories: the snapshot is taken after line 122 *)
display_categories_late(m, v) ==
    categories_with_loaders(m, v) \o m.additional_categories

(* line 121: the snapshot taken before additional_categories is appended *)
display_categories(m, v) == categories_with_loaders(m, v)

(* variant of categories: the retain of lines 170-172 is missing *)
categories_keep_mrpack(m, v, loader_fields) ==
    categories_with_loaders(m, v) \o m.additional_categories
        \o mrpack_loaders(loader_fields)

(* variant of categories: additional_categories is appended before the loaders *)
categories_additional_first(m, v, loader_fields) ==
    LET extended == m.categories \o m.additional_categories \o v.loaders
                      \o mrpack_loaders(loader_fields)
    IN IF "mrpack_loaders" \in DOMAIN loader_fields
       THEN RetainNot(extended, "mrpack")
       ELSE extended

(* lines 116-122, 169-172 *)
categories(m, v, loader_fields) ==
    LET extended == categories_with_loaders(m, v) \o m.additional_categories
                      \o mrpack_loaders(loader_fields)
    IN IF "mrpack_loaders" \in DOMAIN loader_fields
       THEN RetainNot(extended, "mrpack")
       ELSE extended

(* str::split(' ').next(): the pieces before the first ' ' *)
RECURSIVE SplitSpaceFirst(_)
SplitSpaceFirst(s) ==
    IF s = <<>> \/ Head(s) = " " THEN <<>>
    ELSE <<Head(s)>> \o SplitSpaceFirst(Tail(s))

(* variant of license: the licence string is stored unsplit *)
license_unsplit(m) == m.license

(* lines 131-134; split always yields a first item, so None is not taken *)
license(m) == SplitSpaceFirst(m.license)

(* spdx::license_id: the registry, identifier -> OSI-approved *)
SpdxRegistry == (<<"MIT">> :> TRUE) @@ (<<"JSON">> :> FALSE)
license_id(name) == IF name \in DOMAIN SpdxRegistry THEN Some(name) ELSE None
is_osi_approved(id) == SpdxRegistry[id]

(* lines 136-139 *)
open_source(lic) ==
    IF license_id(lic) # None THEN is_osi_approved(license_id(lic)[1]) ELSE FALSE

(* String's Ord on the names the model uses (byte-wise lexicographic) *)
SortedNames == <<"adventure", "fabric", "forge", "mrpack", "quilt", "utility">>
StrRank(s) == CHOOSE i \in DOMAIN SortedNames : SortedNames[i] = s
StrLe(a, b) == StrRank(a) <= StrRank(b)

(* Vec::sort *)
RECURSIVE Insert(_, _)
Insert(x, sorted) ==
    IF sorted = <<>> THEN <<x>>
    ELSE IF StrLe(x, Head(sorted)) THEN <<x>> \o sorted
    ELSE <<Head(sorted)>> \o Insert(x, Tail(sorted))

RECURSIVE Sort(_)
Sort(xs) == IF xs = <<>> THEN <<>> ELSE Insert(Head(xs), Sort(Tail(xs)))

(* Vec::dedup: removes consecutive repeated elements *)
RECURSIVE Dedup(_)
Dedup(xs) ==
    IF Len(xs) <= 1 THEN xs
    ELSE IF xs[1] = xs[2] THEN Dedup(Tail(xs))
    ELSE <<xs[1]>> \o Dedup(Tail(xs))

(* lines 142-150: the fold over all_version_ids *)
RECURSIVE FoldLoaders(_, _)
FoldLoaders(all_version_ids, vs) ==
    IF all_version_ids = <<>> THEN <<>>
    ELSE (IF Head(all_version_ids) \in DOMAIN vs
          THEN vs[Head(all_version_ids)].loaders ELSE <<>>)
         \o FoldLoaders(Tail(all_version_ids), vs)

(* variant of loaders: dedup without the sort of line 151 *)
loaders_unsorted(m, vs) == Dedup(FoldLoaders(m.versions, vs))

(* lines 142-152 *)
loaders(m, vs) == Dedup(Sort(FoldLoaders(m.versions, vs)))

(* lines 102-243: the UploadSearchProject built for one entry *)
UploadSearchProject(m, v, owner_username, vs) ==
    LET loader_fields == from_duplicate_version_fields(v.version_fields)
    IN [version_id |-> v.id,
        project_id |-> m.id,
        categories |-> categories(m, v, loader_fields),
        author |-> owner_username,
        license |-> license(m),
        display_categories |-> display_categories(m, v),
        open_source |-> open_source(license(m)),
        loader_fields |-> loader_fields,
        versions |-> m.versions,
        loaders |-> loaders(m, vs)]

(* --------------------------- store states ----------------------------- *)
Usernames == (1 :> "alice") @@ (2 :> "bob")
OrgTeam == [o \in OrgIds |-> [team_id |-> 0]]

Member(team, user, owner, acc) ==
    [team_id |-> team, user_id |-> user, is_owner |-> owner, accepted |-> acc]

BaseMod(p) ==
    [status |-> "approved", team_id |-> p, organization_id |-> None,
     license |-> <<"MIT">>, categories |-> <<>>, additional_categories |-> <<>>]

BaseVersion(p) ==
    [mod_id |-> p, status |-> "listed", loaders |-> <<>>, version_fields |-> <<>>]

(* every project's team has user 1 as its accepted owner *)
BaseMembers == {Member(p, 1, TRUE, TRUE) : p \in ProjectIds}

Store(mods, vers, members) ==
    [mods |-> mods, versions |-> vers, team_members |-> members,
     users |-> Usernames, organizations |-> OrgTeam]

(* version 1 of project 1 is the only version of a searchable project: every
   other version belongs to project 2, which is a draft *)
FocusMods(mod1) ==
    [p \in ProjectIds |-> IF p = 1 THEN mod1 ELSE [BaseMod(p) EXCEPT !.status = "draft"]]
FocusVersions(ver1) ==
    [v \in VersionIds |-> IF v = 1 THEN ver1 ELSE BaseVersion(2)]

RunStart ==
    /\ store_error = None
    /\ pc = "get_all_ids"
    /\ pending = {}
    /\ all_visible_ids = <<>>
    /\ visible_ids = EmptyMap
    /\ projects = EmptyMap
    /\ versions = EmptyMap
    /\ remaining = {}
    /\ uploads = <<>>
    /\ result = [tag |-> "none", err |-> "", value |-> <<>>]

(* statuses and the project of each version vary *)
StoreStatuses ==
    { Store([p \in ProjectIds |-> [BaseMod(p) EXCEPT !.status = ps[p]]],
            [v \in VersionIds |-> [BaseVersion(vm[v]) EXCEPT !.status = vs[v]]],
            BaseMembers) :
        <<ps, vm, vs>> \in [ProjectIds -> {"approved", "draft"}]
                             \X [VersionIds -> ProjectIds]
                             \X [VersionIds -> {"listed", "draft"}] }

Init == db \in StoreStatuses /\ RunStart

(* team and organization membership of project 1 vary *)
Roles == {"none", "owner", "pending", "member"}
RoleMembers(team, role) ==
    UNION { CASE role[u] = "owner" -> {Member(team, u, TRUE, TRUE)}
              [] role[u] = "pending" -> {Member(team, u, TRUE, FALSE)}
              [] role[u] = "member" -> {Member(team, u, FALSE, TRUE)}
              [] OTHER -> {} : u \in UserIds }

StoreOwners ==
    { Store(FocusMods([BaseMod(1) EXCEPT !.organization_id = org]),
            FocusVersions(BaseVersion(1)),
            RoleMembers(1, tr) \cup RoleMembers(0, or)) :
        <<org, tr, or>> \in {None, Some(1)} \X [UserIds -> Roles] \X [UserIds -> Roles] }

InitOwners == db \in StoreOwners /\ RunStart

(* categories, loaders and version fields of project 1 / version 1 vary *)
JsonString(x) == [kind |-> "string", str |-> x]
JsonNumber(x) == [kind |-> "number", str |-> x]
FieldCandidates ==
    { [field_name |-> "mrpack_loaders", value |-> JsonString("fabric")],
      [field_name |-> "mrpack_loaders", value |-> JsonString("mrpack")],
      [field_name |-> "mrpack_loaders", value |-> JsonNumber("1")],
      [field_name |-> "game_versions", value |-> JsonString("1.20")] }

StoreCategories ==
    { Store(FocusMods([BaseMod(1) EXCEPT !.categories = c[1],
                                         !.additional_categories = c[2]]),
            FocusVersions([BaseVersion(1) EXCEPT !.loaders = c[3],
                                                 !.version_fields = c[4]]),
            BaseMembers) :
        c \in SeqsUpTo({"adventure", "mrpack"}, MaxCats)
                \X SeqsUpTo({"utility", "mrpack"}, MaxCats)
                \X SeqsUpTo({"fabric", "mrpack"}, MaxLoaders)
                \X SeqsUpTo(FieldCandidates, MaxFields) }

InitCategories == db \in StoreCategories /\ RunStart

(* every version belongs to project 1; the loaders of each version vary (a
   version lists a loader at most once) *)
DistinctSeqsUpTo(S, n) ==
    {s \in SeqsUpTo(S, n) : \A i, j \in DOMAIN s : i # j => s[i] # s[j]}

StoreLoaders ==
    { Store([p \in ProjectIds |-> BaseMod(p)],
            [v \in VersionIds |-> [BaseVersion(1) EXCEPT !.loaders = ls[v]]],
            BaseMembers) :
        ls \in [VersionIds -> DistinctSeqsUpTo({"fabric", "forge", "quilt"}, MaxLoaders)] }

InitLoaders == db \in StoreLoaders /\ RunStart

(* the licence string of project 1 varies *)
LicensePieces == {"MIT", "JSON", "Proprietary", " ", "\t"}
StoreLicenses ==
    { Store(FocusMods([BaseMod(1) EXCEPT !.license = l]),
            FocusVersions(BaseVersion(1)), BaseMembers) :
        l \in SeqsUpTo(LicensePieces, MaxLicenseLen) }

InitLicenses == db \in StoreLicenses /\ RunStart

(* ------------------------------ the run -------------------------------- *)
Ok(v) == [tag |-> "Ok", err |-> "", value |-> v]
Err(e) == [tag |-> "Err", err |-> e, value |-> <<>>]

(* the `?` operator on a failed store call: the function returns the error *)
Propagate(e) ==
    /\ pc' = "done"
    /\ result' = Err(e)

(* lines 20-42: the query is sent *)
ExecuteQuery ==
    /\ pc = "get_all_ids"
    /\ pending' = QueryGroups(db)
    /\ pc' = "fetch_many"
    /\ UNCHANGED <<db, store_error, all_visible_ids, visible_ids, projects,
                   versions, remaining, uploads, result>>

(* lines 43-52: the stream yields the next row, ORDER BY m.id DESC *)
FetchRow ==
    /\ pc = "fetch_many"
    /\ \E r \in pending :
         /\ \A q \in pending : q.mod_id <= r.mod_id
         /\ all_visible_ids' = Append(all_visible_ids, RowTriple(r))
         /\ pending' = pending \ {r}
    /\ UNCHANGED <<db, store_error, pc, visible_ids, projects, versions,
                   remaining, uploads, result>>

(* line 53: the stream yields an error *)
FetchErr ==
    /\ pc = "fetch_many"
    /\ store_error' = Some("get_all_ids")
    /\ Propagate("get_all_ids")
    /\ pending' = {}
    /\ all_visible_ids' = <<>>
    /\ UNCHANGED <<db, visible_ids, projects, versions, remaining, uploads>>

(* line 55: the stream is exhausted *)
GetAllIdsOk ==
    /\ pc = "fetch_many"
    /\ pending = {}
    /\ pc' = "index_projects"
    /\ UNCHANGED <<db, store_error, pending, all_visible_ids, visible_ids,
                   projects, versions, remaining, uploads, result>>

(* the caller collects the triples into the HashMap index_local takes: a later
   triple of the same version id replaces an earlier one *)
CollectHashMap(triples) ==
    [v \in {triples[i][1] : i \in DOMAIN triples} |->
        LET last == CHOOSE i \in DOMAIN triples :
                       /\ triples[i][1] = v
                       /\ \A j \in DOMAIN triples : triples[j][1] = v => j <= i
        IN <<triples[last][2], triples[last][3]>>]

IndexProjects ==
    /\ pc = "index_projects"
    /\ visible_ids' = CollectHashMap(all_visible_ids)
    /\ all_visible_ids' = <<>>
    /\ pc' = "index_local"
    /\ UNCHANGED <<db, store_error, pending, projects, versions, remaining,
                   uploads, result>>

(* lines 64-73: any requested project may be missing from the answer *)
GetManyIdsOk ==
    /\ pc = "index_local"
    /\ \E found \in SUBSET {visible_ids[v][1] : v \in DOMAIN visible_ids} :
         projects' = [p \in found |-> QueryProject(db, p)]
    /\ pc' = "get_many"
    /\ UNCHANGED <<db, store_error, pending, all_visible_ids, visible_ids,
                   versions, remaining, uploads, result>>

(* line 70: `.await?` on a failed project load *)
GetManyIdsErr ==
    /\ pc = "index_local"
    /\ store_error' = Some("Project::get_many_ids")
    /\ Propagate("Project::get_many_ids")
    /\ UNCHANGED <<db, pending, all_visible_ids, visible_ids, projects, versions,
                   remaining, uploads>>

(* lines 77-86: any requested version may be missing from the answer *)
GetManyOk ==
    /\ pc = "get_many"
    /\ \E found \in SUBSET (DOMAIN visible_ids) :
         versions' = [v \in found |-> QueryVersion(db, v)]
    /\ remaining' = DOMAIN visible_ids
    /\ uploads' = <<>>
    /\ pc' = "for"
    /\ UNCHANGED <<db, store_error, pending, all_visible_ids, visible_ids,
                   projects, result>>

(* variant of GetManyErr: the failed load is taken as an empty answer *)
GetManyErrIgnored ==
    /\ pc = "get_many"
    /\ store_error' = Some("Version::get_many")
    /\ versions' = EmptyMap
    /\ remaining' = DOMAIN visible_ids
    /\ pc' = "for"
    /\ UNCHANGED <<db, pending, all_visible_ids, visible_ids, projects, uploads,
                   result>>

(* line 79: `.await?` on a failed version load *)
GetManyErr ==
    /\ pc = "get_many"
    /\ store_error' = Some("Version::get_many")
    /\ Propagate("Version::get_many")
    /\ UNCHANGED <<db, pending, all_visible_ids, visible_ids, projects, versions,
                   remaining, uploads>>

(* lines 92-95: the project did not resolve *)
ContinueNoProject(version_id) ==
    /\ visible_ids[version_id][1] \notin DOMAIN projects
    /\ UNCHANGED <<uploads, pc, result>>

(* variant of ContinueNoVersion: a missing version ends the run with an error *)
ContinueNoVersionFails(version_id) ==
    /\ visible_ids[version_id][1] \in DOMAIN projects
    /\ version_id \notin DOMAIN versions
    /\ pc' = "done"
    /\ result' = Err("missing version")
    /\ UNCHANGED uploads

(* lines 97-100: the version did not resolve *)
ContinueNoVersion(version_id) ==
    /\ visible_ids[version_id][1] \in DOMAIN projects
    /\ version_id \notin DOMAIN versions
    /\ UNCHANGED <<uploads, pc, result>>

(* lines 102-245 *)
Push(version_id) ==
    /\ visible_ids[version_id][1] \in DOMAIN projects
    /\ version_id \in DOMAIN versions
    /\ uploads' = Append(uploads,
                     UploadSearchProject(projects[visible_ids[version_id][1]],
                                         versions[version_id],
                                         visible_ids[version_id][2],
                                         versions))
    /\ UNCHANGED <<pc, result>>

(* lines 88-246: one iteration of the loop, in the HashMap's order *)
ForBody ==
    /\ pc = "for"
    /\ \E version_id \in remaining :
         /\ remaining' = remaining \ {version_id}
         /\ \/ ContinueNoProject(version_id)
            \/ ContinueNoVersion(version_id)
            \/ Push(version_id)
    /\ UNCHANGED <<db, store_error, pending, all_visible_ids, visible_ids,
                   projects, versions>>

(* line 248 *)
ReturnOk ==
    /\ pc = "for"
    /\ remaining = {}
    /\ result' = Ok(uploads)
    /\ pc' = "done"
    /\ UNCHANGED <<db, store_error, pending, all_visible_ids, visible_ids,
                   projects, versions, remaining, uploads>>

Next ==
    \/ ExecuteQuery
    \/ FetchRow
    \/ FetchErr
    \/ GetAllIdsOk
    \/ IndexProjects
    \/ GetManyIdsOk
    \/ GetManyIdsErr
    \/ GetManyOk
    \/ GetManyErr
    \/ ForBody
    \/ ReturnOk

Spec == Init /\ [][Next]_vars
SpecOwners == InitOwners /\ [][Next]_vars
SpecCategories == InitCategories /\ [][Next]_vars
SpecLoaders == InitLoaders /\ [][Next]_vars
SpecLicenses == InitLicenses /\ [][Next]_vars

(* ============================ properties =============================== *)
Docs == {uploads[i] : i \in DOMAIN uploads}

(* the visibility rule as the policy states it *)
RuleVisible(d, v) ==
    /\ is_searchable(d.mods[d.versions[v].mod_id].status)
    /\ ~is_hidden(d.versions[v].status)

(* C1: every returned triple satisfies the visibility rule (project status
   searchable, version status not hidden), and once get_all_ids has returned,
   every version/project pair that satisfies the rule is among the triples. *)
C1_VisibilityRule ==
    /\ \A i \in DOMAIN all_visible_ids :
         /\ all_visible_ids[i][2] = db.versions[all_visible_ids[i][1]].mod_id
         /\ RuleVisible(db, all_visible_ids[i][1])
    /\ pc = "index_projects" =>
         \A v \in VersionIds :
            RuleVisible(db, v) => \E i \in DOMAIN all_visible_ids : all_visible_ids[i][1] = v

(* entries of visible_ids whose project and version both resolved *)
Resolved ==
    {v \in DOMAIN visible_ids :
        visible_ids[v][1] \in DOMAIN projects /\ v \in DOMAIN versions}
DocsFor(v) == {i \in DOMAIN uploads : uploads[i].version_id = v}

(* C2: while no store call has failed, every visited entry of visible_ids has
   exactly one document if its project and its version both resolved and none
   otherwise, unvisited entries have none, and the run ends Ok with as many
   documents as there are fully resolved entries. *)
C2_OneDocumentPerResolvedEntry ==
    (pc \in {"for", "done"} /\ store_error = None) =>
        /\ \A v \in (DOMAIN visible_ids) \ remaining :
             /\ Cardinality(DocsFor(v)) = (IF v \in Resolved THEN 1 ELSE 0)
             /\ \A i \in DocsFor(v) : uploads[i].project_id = visible_ids[v][1]
        /\ \A v \in remaining : DocsFor(v) = {}
        /\ pc = "done" => /\ result = Ok(uploads)
                          /\ Len(result.value) = Cardinality(Resolved)

C2_Witness ==
    /\ pc = "done"
    /\ result.tag = "Ok"
    /\ Len(result.value) = 1
    /\ \E v \in DOMAIN visible_ids : v \notin DOMAIN versions
    /\ \E v \in DOMAIN visible_ids : visible_ids[v][1] \notin DOMAIN projects

(* usernames of the accepted, owner-flagged members of a team *)
AcceptedOwners(d, team) ==
    {d.users[tm.user_id] : tm \in {t \in d.team_members :
                                     t.team_id = team /\ t.is_owner /\ t.accepted}}
ProjectOwners(d, p) == AcceptedOwners(d, d.mods[p].team_id)
OrganizationOwners(d, p) ==
    IF d.mods[p].organization_id = None THEN {}
    ELSE AcceptedOwners(d, d.organizations[d.mods[p].organization_id[1]].team_id)
ExpectedOwner(d, p) ==
    IF ProjectOwners(d, p) # {} THEN ProjectOwners(d, p)
    ELSE IF OrganizationOwners(d, p) # {} THEN OrganizationOwners(d, p)
    ELSE {""}

(* C3: the owner of every returned triple and the author of every document is
   the project's accepted team owner if there is one, else the accepted owner
   of the project's organization team if there is one, else the empty string;
   and a visible version whose project has no owner at all is still returned. *)
C3_OwnerResolution ==
    /\ \A i \in DOMAIN all_visible_ids :
         all_visible_ids[i][3] \in ExpectedOwner(db, all_visible_ids[i][2])
    /\ \A doc \in Docs : doc.author \in ExpectedOwner(db, doc.project_id)
    /\ pc = "index_projects" =>
         \A v \in VersionIds :
            (/\ RuleVisible(db, v)
             /\ ProjectOwners(db, db.versions[v].mod_id) = {}
             /\ OrganizationOwners(db, db.versions[v].mod_id) = {})
            => \E i \in DOMAIN all_visible_ids :
                  all_visible_ids[i] = <<v, db.versions[v].mod_id, "">>

C3_Witness ==
    \E doc \in Docs :
        /\ ProjectOwners(db, doc.project_id) = {}
        /\ OrganizationOwners(db, doc.project_id) = {"bob"}
        /\ doc.author = "bob"

(* C4: no two triples returned by get_all_ids are equal. *)
C4_NoDuplicateTriples ==
    \A i, j \in DOMAIN all_visible_ids :
        i # j => all_visible_ids[i] # all_visible_ids[j]

(* the string values of a field's value list, in order *)
RECURSIVE StringValues(_)
StringValues(vals) ==
    IF vals = <<>> THEN <<>>
    ELSE (IF Head(vals).kind = "string" THEN <<Head(vals).str>> ELSE <<>>)
         \o StringValues(Tail(vals))

HasMrpackLoaders(doc) == "mrpack_loaders" \in DOMAIN doc.loader_fields
MrpackValues(doc) ==
    IF HasMrpackLoaders(doc) THEN StringValues(doc.loader_fields["mrpack_loaders"])
    ELSE <<>>

(* C5 as stated: with an mrpack_loaders field, "mrpack" is not a category and
   every string value of mrpack_loaders is a category. *)
C5_Original ==
    \A doc \in Docs :
        HasMrpackLoaders(doc) =>
            /\ "mrpack" \notin Range(doc.categories)
            /\ Range(MrpackValues(doc)) \subseteq Range(doc.categories)

(* C5 amended: with an mrpack_loaders field, "mrpack" is not a category and
   every string value of mrpack_loaders other than "mrpack" is a category. *)
C5_MrpackInjection ==
    \A doc \in Docs :
        HasMrpackLoaders(doc) =>
            /\ "mrpack" \notin Range(doc.categories)
            /\ (Range(MrpackValues(doc)) \ {"mrpack"}) \subseteq Range(doc.categories)

C5_Witness ==
    \E doc \in Docs :
        /\ HasMrpackLoaders(doc)
        /\ Range(MrpackValues(doc)) = {"mrpack", "fabric"}
        /\ "fabric" \in Range(doc.categories)
        /\ "mrpack" \in Range(db.mods[doc.project_id].categories)

(* a is an order-preserving subsequence of b *)
RECURSIVE IsSubsequence(_, _)
IsSubsequence(a, b) ==
    IF a = <<>> THEN TRUE
    ELSE IF b = <<>> THEN FALSE
    ELSE IF Head(a) = Head(b) THEN IsSubsequence(Tail(a), Tail(b))
    ELSE IsSubsequence(a, Tail(b))

(* base categories, version loaders, additional categories, mrpack values *)
Concatenation(doc) ==
    db.mods[doc.project_id].categories
      \o db.versions[doc.version_id].loaders
      \o db.mods[doc.project_id].additional_categories
      \o MrpackValues(doc)

WithoutMrpack(xs) == SelectSeq(xs, LAMBDA x : x # "mrpack")

(* C6 as stated: base categories, loaders, additional categories and mrpack
   values, concatenated, are an order-preserving subsequence of categories. *)
C6_Original ==
    \A doc \in Docs : IsSubsequence(Concatenation(doc), doc.categories)

(* C6 amended: that concatenation, less its occurrences of "mrpack" when the
   version has an mrpack_loaders field, is an order-preserving subsequence of
   categories. *)
C6_CategoriesOrder ==
    \A doc \in Docs :
        IsSubsequence(IF HasMrpackLoaders(doc)
                      THEN WithoutMrpack(Concatenation(doc))
                      ELSE Concatenation(doc),
                      doc.categories)

C6_Witness ==
    \E doc \in Docs :
        /\ HasMrpackLoaders(doc)
        /\ "mrpack" \in Range(db.versions[doc.version_id].loaders)
        /\ db.mods[doc.project_id].additional_categories # <<>>
        /\ MrpackValues(doc) # <<>>
        /\ doc.categories # <<>>

(* C7: display_categories is the project's categories followed by the
   version's loaders, whatever is appended to or removed from categories. *)
C7_DisplayCategories ==
    \A doc \in Docs :
        doc.display_categories =
            db.mods[doc.project_id].categories \o db.versions[doc.version_id].loaders

C7_Witness ==
    \E doc \in Docs :
        /\ HasMrpackLoaders(doc)
        /\ db.mods[doc.project_id].additional_categories # <<>>
        /\ "mrpack" \in Range(doc.display_categories)
        /\ "mrpack" \notin Range(doc.categories)
        /\ doc.display_categories # doc.categories

(* the versions of a project that are keys of the loaded version mapping *)
LoadedVersionsOf(p) == {v \in DOMAIN versions : db.versions[v].mod_id = p}

(* C8: the loaders of a document are strictly ascending and are, as a set, the
   loaders of the project's versions that are keys of the version mapping; and
   while no store call has failed every visited, fully resolved entry has its
   document, whichever of the project's versions are missing from the mapping. *)
C8_AggregateLoaders ==
    /\ (pc \in {"for", "done"} /\ store_error = None) =>
          /\ \A v \in Resolved \ remaining : DocsFor(v) # {}
          /\ pc = "done" => result.tag = "Ok"
    /\ \A doc \in Docs :
        /\ \A i \in 1..(Len(doc.loaders) - 1) :
             StrRank(doc.loaders[i]) < StrRank(doc.loaders[i + 1])
        /\ Range(doc.loaders) =
             UNION {Range(db.versions[v].loaders) : v \in LoadedVersionsOf(doc.project_id)}

C8_Witness ==
    \E doc \in Docs :
        /\ Len(doc.loaders) = 2
        /\ \E v \in LoadedVersionsOf(doc.project_id) :
              /\ Len(db.versions[v].loaders) = 2
              /\ db.versions[v].loaders # doc.loaders
        /\ \E v \in VersionIds :
              /\ db.versions[v].mod_id = doc.project_id
              /\ v \notin DOMAIN versions
              /\ ~(Range(db.versions[v].loaders) \subseteq Range(doc.loaders))

(* whitespace characters among the pieces of a licence string *)
IsWhitespace(c) == c \in {" ", "\t"}

RECURSIVE TakeToken(_)
TakeToken(s) ==
    IF s = <<>> \/ IsWhitespace(Head(s)) THEN <<>>
    ELSE <<Head(s)>> \o TakeToken(Tail(s))

RECURSIVE FirstWhitespaceToken(_)
FirstWhitespaceToken(s) ==
    IF s = <<>> THEN <<>>
    ELSE IF IsWhitespace(Head(s)) THEN FirstWhitespaceToken(Tail(s))
    ELSE TakeToken(s)

OsiApproved(token) == token \in DOMAIN SpdxRegistry /\ SpdxRegistry[token]

(* C9 as stated: license is the first whitespace-delimited token of the
   project's licence string and open_source tells whether the registry knows
   that token as OSI-approved. *)
C9_Original ==
    \A doc \in Docs :
        /\ doc.license = FirstWhitespaceToken(db.mods[doc.project_id].license)
        /\ doc.open_source = OsiApproved(FirstWhitespaceToken(db.mods[doc.project_id].license))

(* the part of s before its first space character *)
BeforeFirstSpace(s) ==
    LET k == CHOOSE n \in 0..Len(s) :
                /\ \A i \in 1..n : s[i] # " "
                /\ n = Len(s) \/ s[n + 1] = " "
    IN SubSeq(s, 1, k)

(* C9 amended: license is the part of the project's licence string before its
   first space character (empty when the string is empty or starts with a
   space; no other whitespace delimits), and open_source tells whether the
   registry knows that license value as OSI-approved. *)
C9_LicenseToken ==
    \A doc \in Docs :
        /\ doc.license = BeforeFirstSpace(db.mods[doc.project_id].license)
        /\ doc.open_source = OsiApproved(BeforeFirstSpace(db.mods[doc.project_id].license))

C9_Witness ==
    \E doc \in Docs :
        /\ db.mods[doc.project_id].license = <<" ", "MIT">>
        /\ doc.license = <<>>
        /\ ~doc.open_source

(* C10: once a store call has failed the run has ended with that error and
   without documents; a run that ends Ok had no failed store call; and no
   document exists before both batch loads have succeeded. *)
C10_StoreErrorIsFatal ==
    /\ store_error # None =>
         /\ pc = "done"
         /\ result = Err(store_error[1])
         /\ uploads = <<>>
    /\ result.tag = "Ok" => store_error = None
    /\ result.tag # "Ok" => result.value = <<>>
    /\ uploads # <<>> => (pc \in {"for", "done"} /\ store_error = None)

C10_Witness ==
    /\ store_error = Some("Version::get_many")
    /\ pc = "done"
    /\ result.tag = "Err"
    /\ DOMAIN projects # {}
    /\ Cardinality(DOMAIN visible_ids) = 2

====
